---- MODULE Spec2Model ----
(***************************************************************************)
(* Model of the emissions analytics engine of CROWN-Quest-Emissions-       *)
(* Explorer: src/modules/decarbonization.py and src/data/data_processor.py *)
(*                                                                         *)
(* Numbers.  The code computes in IEEE doubles; the model computes the     *)
(* same expressions exactly, on integers:                                  *)
(*   - an emissions value of a record is an integer number of hundredths   *)
(*     of a tCO2e (100 is 1.00 tCO2e, 75 is 0.75 tCO2e);                   *)
(*   - a value the code returns after round(x, 1) is an integer number of  *)
(*     tenths (2005 is 200.5), after round(x, 2) an integer number of      *)
(*     hundredths (267 is 2.67);                                           *)
(*   - round is round-half-to-even (RoundDiv), as numpy's and Python's;    *)
(*     the input domains hold values that doubles represent exactly        *)
(*     (multiples of 0.25 tCO2e, percentages 0, 50 and 100), so that the   *)
(*     exact value the model rounds is the value the code rounds;          *)
(*   - the targets 20, 25, 30 and 35 over 100 are not dyadic: the amounts  *)
(*     round(emissions * (reduction_pct / 100), 1) of the plan and of the  *)
(*     curve are computed in binary64, bit for bit (section Binary64       *)
(*     arithmetic), and so are the totals of SpecDecimal, whose emissions  *)
(*     (0.01, 0.48) doubles do not represent exactly;                      *)
(*   - a value that can be not-a-number (the result of 0/0) is a record    *)
(*     [nan |-> BOOLEAN, v |-> Int]; every comparison with a NaN is FALSE. *)
(* A data frame is the sequence of its rows together with the set of its   *)
(* column names; a dict is the sequence of its <<key, value>> items in     *)
(* insertion order; a raised exception is the field `raised` of the        *)
(* returned record.                                                        *)
(*                                                                         *)
(* A value of the code that is used several times (grouped, targets,       *)
(* cost_effectiveness) is the argument of a local operator: TLC evaluates  *)
(* an argument once and a LET definition at each of its uses.              *)
(***************************************************************************)
EXTENDS Integers, Sequences, FiniteSets, TLC

(***************************************************************************)
(* Bounds and input domains.                                               *)
(***************************************************************************)
\* The largest number of rows of a dataset.
MaxRows == 3
\* The largest number of entries of a reduction map.
MaxMap == 2
\* The largest number of categories of a dataset with one record per category.
MaxCategories == 7

\* The column names of the input schema the engine reads.
ColCategory == "Category"
ColTier == "Tier"
ColEmissions == "Emissions (tCO2e)"
ColQuality == "Data Quality Score"
AllColumns == {ColCategory, ColTier, ColEmissions, ColQuality}

\* Category values, listed in ascending string order (the order in which a
\* pandas groupby, sort=True, yields its keys).
CategoryOrder ==
    <<"Business Travel", "End of Life", "Manufacturing", "Packaging", "Raw Materials",
      "Transport", "Use Phase", "Waste">>

\* Tier values are strings; the model keeps them as sequences of characters
\* so that the regular expression of calculate_cost_effectiveness acts on them.
Tier1 == <<"T", "i", "e", "r", " ", "1">>
Tier2 == <<"T", "i", "e", "r", " ", "2">>
Tier2b == <<"T", "i", "e", "r", " ", "2", "b">>
Tier3 == <<"T", "i", "e", "r", " ", "3">>
Level1 == <<"L", "e", "v", "e", "l", " ", "1">>
\* Tier values in ascending string order (ASCII: ' ' < digits < 'L' < 'T' < a..z).
TierOrder == <<Level1, Tier1, Tier2, Tier2b, Tier3>>

Digits == <<"0", "1", "2", "3", "4", "5", "6", "7", "8", "9">>

Range(s) == {s[i] : i \in 1..Len(s)}

\* All datasets of at most n rows drawn from Rows.
Datasets(Rows, n) == UNION {[1..k -> Rows] : k \in 0..n}

\* The rows of a dataset: every field a record of the input schema has.
RowsOf(Cats, Tiers, Ems, Quals) ==
    [Category : Cats, Tier : Tiers, Emissions : Ems, Quality : Quals]

\* The datasets with one record for each of the first k categories, k <= n,
\* every record with a tier from Tiers and emissions from Ems.
OnePerCategory(Tiers, Ems, n) ==
    UNION {{[i \in 1..k |-> [Category |-> CategoryOrder[i], Tier |-> f[i][1],
                             Emissions |-> f[i][2], Quality |-> 3]] :
               f \in [1..k -> Tiers \X Ems]} : k \in 0..n}

(***************************************************************************)
(* Arithmetic helpers.                                                     *)
(***************************************************************************)
\* round(n / d) to the nearest integer, ties to the even one; d > 0.
RoundDiv(n, d) ==
    LET q == n \div d
        r == n % d
    IN  IF 2 * r < d THEN q
        ELSE IF 2 * r > d THEN q + 1
        ELSE IF q % 2 = 0 THEN q ELSE q + 1

Abs(x) == IF x < 0 THEN -x ELSE x
\* The greatest common divisor of two naturals.
RECURSIVE GCD(_, _)
GCD(a, b) == IF b = 0 THEN a ELSE GCD(b, a % b)

\* A float that is a number / the float not-a-number.
Num(x) == [nan |-> FALSE, v |-> x]
NaN == [nan |-> TRUE, v |-> 0]
\* Python's a < b and a > b on floats: FALSE when either is NaN.
FloatLT(a, b) == ~a.nan /\ ~b.nan /\ a.v < b.v
FloatGT(a, b) == ~a.nan /\ ~b.nan /\ a.v > b.v

(***************************************************************************)
(* Binary64 arithmetic.  Emissions with two decimals (0.01, 0.48) are not  *)
(* dyadic: the double of each is the nearest binary64, and a sum of        *)
(* doubles is rounded to 53 significant bits after every addition.  Here a *)
(* non-negative double is the natural number of units of 2^-61 it holds,   *)
(* written in limbs of 20 bits, the least significant first; the doubles   *)
(* the model meets (at least 0.01, below 16) are whole numbers of units.   *)
(***************************************************************************)
\* The bits of a limb, the base they give (2^20) and the limbs of a number.
LimbBits == 20
LimbBase == 1048576
Limbs == 4
\* A unit is 2^-UnitBits.
UnitBits == 61
\* The bits of the significand of a binary64.
Mantissa == 53
\* The double 0.0.
WideZero == [i \in 1..Limbs |-> 0]

\* Carries the excess of every limb into the next one.
RECURSIVE Carry(_, _, _)
Carry(a, i, c) ==
    IF i > Len(a) THEN <<>>
    ELSE LET x == a[i] + c
         IN  <<x % LimbBase>> \o Carry(a, i + 1, x \div LimbBase)
\* The exact sum of two numbers, and the exact product of one by a small k.
WideAdd(a, b) == Carry([i \in 1..Limbs |-> a[i] + b[i]], 1, 0)
WideTimes(a, k) == Carry([i \in 1..Limbs |-> a[i] * k], 1, 0)
\* The quotient and the remainder of a by a small k, from limb i down.
RECURSIVE WideDiv(_, _, _, _)
WideDiv(a, k, i, r) ==
    IF i = 0 THEN [q |-> <<>>, r |-> r]
    ELSE LET x == r * LimbBase + a[i]
             rest == WideDiv(a, k, i - 1, x % k)
         IN  [q |-> Append(rest.q, x \div k), r |-> rest.r]

RECURSIVE BitsOf(_)
BitsOf(x) == IF x = 0 THEN 0 ELSE 1 + BitsOf(x \div 2)
\* The number of significant bits of a.
BitLength(a) ==
    IF a = WideZero THEN 0
    ELSE LET top == CHOOSE i \in 1..Limbs : a[i] > 0 /\ \A j \in (i + 1)..Limbs : a[j] = 0
         IN  LimbBits * (top - 1) + BitsOf(a[top])
\* Bit d of a (bit 0 is the lowest), a with its d lowest bits cleared, and 2^d.
BitAt(a, d) == (a[(d \div LimbBits) + 1] \div (2 ^ (d % LimbBits))) % 2
ClearLow(a, d) ==
    [i \in 1..Limbs |->
        IF i < (d \div LimbBits) + 1 THEN 0
        ELSE IF i = (d \div LimbBits) + 1 THEN a[i] - (a[i] % (2 ^ (d % LimbBits)))
        ELSE a[i]]
PowerOfTwo(d) == [i \in 1..Limbs |-> IF i = (d \div LimbBits) + 1 THEN 2 ^ (d % LimbBits) ELSE 0]

\* a rounded to a multiple of 2^d, to the nearest one and on a tie to the
\* one whose bit d is 0 (round-half-to-even).
RoundToBit(a, d) ==
    IF d = 0 THEN a
    ELSE LET up == /\ BitAt(a, d - 1) = 1
                   /\ (ClearLow(a, d - 1) # a \/ BitAt(a, d) = 1)
         IN  IF up THEN WideAdd(ClearLow(a, d), PowerOfTwo(d)) ELSE ClearLow(a, d)

\* The binary64 nearest to the exact value a: its 53 most significant bits,
\* rounded.
RoundToBinary64(a) ==
    LET d == BitLength(a) - Mantissa
    IN  IF d <= 0 THEN a ELSE RoundToBit(a, d)

\* The double of an emissions value of h hundredths: the binary64 nearest to
\* h / 100.  The quotient is cut at the unit, and a remainder makes it odd so
\* that the rounding sees that the value lies above the cut.
Binary64Of(h) ==
    LET cut == WideDiv([i \in 1..Limbs |-> IF i = Limbs THEN 2 * h ELSE 0], 100, Limbs, 0)
    IN  RoundToBinary64(IF cut.r > 0 /\ cut.q[1] % 2 = 0
                        THEN [cut.q EXCEPT ![1] = @ + 1]
                        ELSE cut.q)

\* df['Emissions (tCO2e)'].sum() in binary64: numpy adds fewer than 8 values
\* one after the other, in the order of the rows, from 0.0.
RECURSIVE Binary64SumFrom(_, _, _)
Binary64SumFrom(d, i, res) ==
    IF i > Len(d) THEN res
    ELSE Binary64SumFrom(d, i + 1, RoundToBinary64(WideAdd(res, Binary64Of(d[i].Emissions))))

\* round(x, 1) of a numpy double, in tenths: x * 10 in binary64, rint (to the
\* nearest integer, ties to the even one), and the division by 10 that turns
\* the tenths back into a double.
Binary64RoundTenths(x) ==
    LET y == RoundToBit(RoundToBinary64(WideTimes(x, 10)), UnitBits)
    IN  y[(UnitBits \div LimbBits) + 1] \div (2 ^ (UnitBits % LimbBits))

\* round(emissions * (reduction_pct / 100), 1) on Python floats, in tenths;
\* emissions a total of the dataset, in hundredths and a multiple of 0.25
\* tCO2e (so that emissions / 25 quarters are a double), reduction_pct a
\* target.  The product of the quarters and the double of reduction_pct / 100
\* is rounded to binary64; Python's round then rounds the exact value of that
\* double, ties to even.
Binary64Reduction(emissions, reduction_pct) ==
    LET quarters == RoundToBinary64(WideTimes(Binary64Of(reduction_pct), emissions \div 25))
        tenths == RoundToBit(WideTimes(quarters, 10), UnitBits + 2)
    IN  tenths[((UnitBits + 2) \div LimbBits) + 1] \div (2 ^ ((UnitBits + 2) % LimbBits))

\* The percentages recommend_reduction_targets gives, and the largest total
\* of a category in the datasets of the plan and of the curve, in quarters of
\* a tCO2e.
TargetPercentages == <<20, 25, 30, 35>>
MaxQuarters == 64
\* Binary64Reduction for every target and every total up to MaxQuarters,
\* computed once: row k holds the values of target k, from 0 quarters up.
RECURSIVE Binary64ReductionsUpTo(_, _)
Binary64ReductionsUpTo(reduction_pct, quarters) ==
    IF quarters < 0 THEN <<>>
    ELSE Append(Binary64ReductionsUpTo(reduction_pct, quarters - 1),
                Binary64Reduction(25 * quarters, reduction_pct))
Binary64Reductions ==
    <<Binary64ReductionsUpTo(TargetPercentages[1], MaxQuarters),
      Binary64ReductionsUpTo(TargetPercentages[2], MaxQuarters),
      Binary64ReductionsUpTo(TargetPercentages[3], MaxQuarters),
      Binary64ReductionsUpTo(TargetPercentages[4], MaxQuarters)>>
\* round(emissions * (reduction_pct / 100), 1), read from the table.
RoundedReduction(emissions, reduction_pct) ==
    LET k == CHOOSE k \in 1..Len(TargetPercentages) : TargetPercentages[k] = reduction_pct
    IN  Binary64Reductions[k][(emissions \div 25) + 1]

(***************************************************************************)
(* Dicts as item sequences.                                                *)
(***************************************************************************)
Keys(d) == {d[i][1] : i \in 1..Len(d)}
HasKey(d, k) == \E i \in 1..Len(d) : d[i][1] = k
\* dict.get(k, default)
Get(d, k, default) ==
    IF HasKey(d, k) THEN d[CHOOSE i \in 1..Len(d) : d[i][1] = k][2] ELSE default
\* d[k] = x
Put(d, k, x) ==
    IF HasKey(d, k)
    THEN [i \in 1..Len(d) |-> IF d[i][1] = k THEN <<k, x>> ELSE d[i]]
    ELSE Append(d, <<k, x>>)

(***************************************************************************)
(* Data frame helpers (pandas).                                            *)
(***************************************************************************)
\* Mutant of IsEmpty: only a frame with no columns is empty.
IsEmpty_NoColumns(d, cols) == cols = {}

\* df.empty: no rows or no columns.
IsEmpty(d, cols) == Len(d) = 0 \/ cols = {}

RECURSIVE SumEmissionsFrom(_, _)
SumEmissionsFrom(d, i) ==
    IF i > Len(d) THEN 0 ELSE d[i].Emissions + SumEmissionsFrom(d, i + 1)
\* df['Emissions (tCO2e)'].sum(), in hundredths.
SumEmissions(d) == SumEmissionsFrom(d, 1)

\* df[df['Category'] == category]
FilterCategory(d, category) == SelectSeq(d, LAMBDA row : row.Category = category)
FilterTier(d, tier) == SelectSeq(d, LAMBDA row : row.Tier = tier)

\* df.groupby('Category')['Emissions (tCO2e)'].sum(): one item per category
\* present, keys ascending.
GroupByCategory(d) ==
    LET Sums(present) ==
            [k \in 1..Len(present) |->
                <<present[k], SumEmissions(FilterCategory(d, present[k]))>>]
    IN  Sums(SelectSeq(CategoryOrder, LAMBDA c : \E i \in 1..Len(d) : d[i].Category = c))

\* df.groupby('Tier')['Emissions (tCO2e)'].sum()
GroupByTier(d) ==
    LET Sums(present) ==
            [k \in 1..Len(present) |->
                <<present[k], SumEmissions(FilterTier(d, present[k]))>>]
    IN  Sums(SelectSeq(TierOrder, LAMBDA t : \E i \in 1..Len(d) : d[i].Tier = t))

\* df.groupby(['Category', 'Tier'])['Emissions (tCO2e)'].sum().reset_index():
\* one row per (category, tier) pair present, ascending by category, then tier.
GroupByCategoryTier(d) ==
    LET Sums(present) ==
            [k \in 1..Len(present) |->
                [Category |-> present[k][1], Tier |-> present[k][2],
                 Emissions |-> SumEmissions(FilterTier(FilterCategory(d, present[k][1]),
                                                       present[k][2]))]]
        Pairs(categories, tiers) ==
            [k \in 1..(Len(categories) * Len(tiers)) |->
                <<categories[((k - 1) \div Len(tiers)) + 1],
                  tiers[((k - 1) % Len(tiers)) + 1]>>]
    IN  Sums(SelectSeq(Pairs(SelectSeq(CategoryOrder,
                                       LAMBDA c : \E i \in 1..Len(d) : d[i].Category = c),
                             SelectSeq(TierOrder,
                                       LAMBDA t : \E i \in 1..Len(d) : d[i].Tier = t)),
                       LAMBDA p : \E i \in 1..Len(d) :
                                     d[i].Category = p[1] /\ d[i].Tier = p[2]))

\* Series.unique() of the Category column of a frame: first appearances, in order.
RECURSIVE UniqueCategoriesFrom(_, _, _)
UniqueCategoriesFrom(d, i, seen) ==
    IF i > Len(d) THEN <<>>
    ELSE IF d[i].Category \in seen THEN UniqueCategoriesFrom(d, i + 1, seen)
    ELSE <<d[i].Category>> \o UniqueCategoriesFrom(d, i + 1, seen \cup {d[i].Category})
UniqueCategories(d) == UniqueCategoriesFrom(d, 1, {})

(***************************************************************************)
(* A call and what it returns: a value, or the exception it raised.        *)
(***************************************************************************)
\* The record of a call of op with the extra argument arg and outcome r, and
\* the record before any call.
Called(op, arg, r) == [op |-> op, arg |-> arg, raised |-> r.raised, value |-> r.value]
NoCall == [op |-> "none", arg |-> <<>>, raised |-> "none", value |-> <<>>]

Return(x) == [raised |-> "none", value |-> x]
Raise(e) == [raised |-> e, value |-> <<>>]

(***************************************************************************)
(* src/modules/decarbonization.py                                          *)
(***************************************************************************)
\* Mutant of ScenarioLoop: the loop forgets new_total -= savings.
RECURSIVE ScenarioLoop_KeepTotal(_, _, _, _, _)
ScenarioLoop_KeepTotal(d, reduction_values, i, new_total, category_savings) ==
    IF i > Len(reduction_values)
    THEN [new_total |-> new_total, category_savings |-> category_savings]
    ELSE LET category == reduction_values[i][1]
             reduction_pct == reduction_values[i][2]
             category_emissions == SumEmissions(FilterCategory(d, category))
             savings == category_emissions * reduction_pct
         IN  ScenarioLoop_KeepTotal(d, reduction_values, i + 1, new_total,
                                    Put(category_savings, category, RoundDiv(savings, 1000)))

\* Mutant of ScenarioLoop: the loop subtracts the rounded savings.
RECURSIVE ScenarioLoop_SubtractRounded(_, _, _, _, _)
ScenarioLoop_SubtractRounded(d, reduction_values, i, new_total, category_savings) ==
    IF i > Len(reduction_values)
    THEN [new_total |-> new_total, category_savings |-> category_savings]
    ELSE LET category == reduction_values[i][1]
             reduction_pct == reduction_values[i][2]
             category_emissions == SumEmissions(FilterCategory(d, category))
             savings == category_emissions * reduction_pct
         IN  ScenarioLoop_SubtractRounded(d, reduction_values, i + 1,
                                          new_total - 1000 * RoundDiv(savings, 1000),
                                          Put(category_savings, category,
                                              RoundDiv(savings, 1000)))

\* Mutant of ScenarioLoop: a percentage of 0 is taken as unset and replaced
\* by the slider default 20.
RECURSIVE ScenarioLoop_DefaultPct(_, _, _, _, _)
ScenarioLoop_DefaultPct(d, reduction_values, i, new_total, category_savings) ==
    IF i > Len(reduction_values)
    THEN [new_total |-> new_total, category_savings |-> category_savings]
    ELSE LET category == reduction_values[i][1]
             reduction_pct == IF reduction_values[i][2] = 0 THEN 20
                              ELSE reduction_values[i][2]
             category_emissions == SumEmissions(FilterCategory(d, category))
             savings == category_emissions * reduction_pct
         IN  ScenarioLoop_DefaultPct(d, reduction_values, i + 1, new_total - savings,
                                     Put(category_savings, category,
                                         RoundDiv(savings, 1000)))

\* Mutant of ScenarioLoop: a percentage outside [0,100] is clamped to it.
RECURSIVE ScenarioLoop_Clamped(_, _, _, _, _)
ScenarioLoop_Clamped(d, reduction_values, i, new_total, category_savings) ==
    IF i > Len(reduction_values)
    THEN [new_total |-> new_total, category_savings |-> category_savings]
    ELSE LET category == reduction_values[i][1]
             given == reduction_values[i][2]
             reduction_pct == IF given < 0 THEN 0 ELSE IF given > 100 THEN 100 ELSE given
             category_emissions == SumEmissions(FilterCategory(d, category))
             savings == category_emissions * reduction_pct
         IN  ScenarioLoop_Clamped(d, reduction_values, i + 1, new_total - savings,
                                  Put(category_savings, category,
                                      RoundDiv(savings, 1000)))

\* Mutant of ScenarioLoop: a key that names no category of the dataset is
\* skipped and gets no entry.
RECURSIVE ScenarioLoop_DatasetKeys(_, _, _, _, _)
ScenarioLoop_DatasetKeys(d, reduction_values, i, new_total, category_savings) ==
    IF i > Len(reduction_values)
    THEN [new_total |-> new_total, category_savings |-> category_savings]
    ELSE LET category == reduction_values[i][1]
             reduction_pct == reduction_values[i][2]
             category_emissions == SumEmissions(FilterCategory(d, category))
             savings == category_emissions * reduction_pct
         IN  IF FilterCategory(d, category) = <<>>
             THEN ScenarioLoop_DatasetKeys(d, reduction_values, i + 1, new_total,
                                           category_savings)
             ELSE ScenarioLoop_DatasetKeys(d, reduction_values, i + 1,
                                           new_total - savings,
                                           Put(category_savings, category,
                                               RoundDiv(savings, 1000)))

\* Mutant of ScenarioLoop: the percentage is applied to the emissions of the
\* whole dataset instead of the category's.
RECURSIVE ScenarioLoop_WholeDataset(_, _, _, _, _)
ScenarioLoop_WholeDataset(d, reduction_values, i, new_total, category_savings) ==
    IF i > Len(reduction_values)
    THEN [new_total |-> new_total, category_savings |-> category_savings]
    ELSE LET category == reduction_values[i][1]
             reduction_pct == reduction_values[i][2]
             category_emissions == SumEmissions(d)
             savings == category_emissions * reduction_pct
         IN  ScenarioLoop_WholeDataset(d, reduction_values, i + 1, new_total - savings,
                                       Put(category_savings, category,
                                           RoundDiv(savings, 1000)))

\* The for loop of calculate_reduction_scenarios over reduction_values.items().
\* new_total is kept exactly, in ten-thousandths of a tCO2e: an emissions sum
\* in hundredths times an integer percentage.
RECURSIVE ScenarioLoop(_, _, _, _, _)
ScenarioLoop(d, reduction_values, i, new_total, category_savings) ==
    IF i > Len(reduction_values)
    THEN [new_total |-> new_total, category_savings |-> category_savings]
    ELSE LET category == reduction_values[i][1]
             reduction_pct == reduction_values[i][2]
             category_emissions == SumEmissions(FilterCategory(d, category))
             savings == category_emissions * reduction_pct
         IN  ScenarioLoop(d, reduction_values, i + 1, new_total - savings,
                          Put(category_savings, category, RoundDiv(savings, 1000)))

\* Mutant of ReductionPercentage: the reduction is taken relative to new_total.
ReductionPercentage_OfNew(current_total, new_total) ==
    IF current_total > 0 /\ new_total > 0
    THEN RoundDiv(1000 * (100 * current_total - new_total), new_total)
    ELSE 0

\* The if/else that computes reduction_percentage, rounded to 1 decimal (in
\* tenths of a percent); current_total in hundredths, new_total in
\* ten-thousandths of a tCO2e.
ReductionPercentage(current_total, new_total) ==
    IF current_total > 0
    THEN LET reduction == 100 * current_total - new_total
             \* the quotient is taken in lowest terms, to keep the products small
             g == GCD(Abs(reduction), 100 * current_total)
         IN  RoundDiv(1000 * (reduction \div g), (100 * current_total) \div g)
    ELSE 0

\* Returns (current_total, new_total, reduction_percentage, category_savings);
\* the three totals and every saving in tenths.
calculate_reduction_scenarios(d, cols, reduction_values) ==
    IF IsEmpty(d, cols) \/ ColCategory \notin cols \/ ColEmissions \notin cols
    THEN Return([current_total |-> 0, new_total |-> 0, reduction_percentage |-> 0,
                 category_savings |-> <<>>])
    ELSE LET current_total == SumEmissions(d)
             loop == ScenarioLoop(d, reduction_values, 1, 100 * current_total, <<>>)
             new_total == loop.new_total
         IN  Return([current_total |-> RoundDiv(current_total, 10),
                     new_total |-> RoundDiv(new_total, 1000),
                     reduction_percentage |-> ReductionPercentage(current_total, new_total),
                     category_savings |-> loop.category_savings])

\* Mutant of PercentageGT: the comparison is >= instead of >.
PercentageGE(n, d, k) == IF d = 0 THEN n > 0 ELSE 100 * n >= k * d

\* (n / d) * 100 > k on floats, n >= 0 and d >= 0: 0/0 is NaN and compares
\* FALSE, n/0 with n > 0 is +inf.
PercentageGT(n, d, k) == IF d = 0 THEN n > 0 ELSE 100 * n > k * d

\* Mutant of TargetFor: a total of zero is answered with the neutral target 0.
TargetFor_ZeroTotal(category_emissions, total_emissions) ==
    IF total_emissions = 0 THEN 0
    ELSE IF PercentageGT(category_emissions, total_emissions, 30) THEN 35
    ELSE IF PercentageGT(category_emissions, total_emissions, 20) THEN 30
    ELSE IF PercentageGT(category_emissions, total_emissions, 10) THEN 25
    ELSE 20

\* The if/elif chain of recommend_reduction_targets on one category's share.
TargetFor(category_emissions, total_emissions) ==
    IF PercentageGT(category_emissions, total_emissions, 30) THEN 35
    ELSE IF PercentageGT(category_emissions, total_emissions, 20) THEN 30
    ELSE IF PercentageGT(category_emissions, total_emissions, 10) THEN 25
    ELSE 20

RECURSIVE SumValuesFrom(_, _)
SumValuesFrom(items, i) ==
    IF i > Len(items) THEN 0 ELSE items[i][2] + SumValuesFrom(items, i + 1)

\* Returns the dict category -> recommended percentage.
recommend_reduction_targets(d, cols) ==
    IF IsEmpty(d, cols) \/ ColCategory \notin cols \/ ColEmissions \notin cols
    THEN Return(<<>>)
    ELSE LET TargetsOf(category_emissions, total_emissions) ==
                 [k \in 1..Len(category_emissions) |->
                     <<category_emissions[k][1],
                       TargetFor(category_emissions[k][2], total_emissions)>>]
             Shares(category_emissions) ==
                 TargetsOf(category_emissions, SumValuesFrom(category_emissions, 1))
         IN  Return(Shares(GroupByCategory(d)))

\* Series.str.extract(r'Tier (\d+)') followed by astype(int) on one value: the
\* pattern is searched anywhere in the string (re.search), the leftmost match
\* wins and \d+ takes the longest run of digits.  No match gives the missing
\* value NaN, which astype(int) cannot convert.
TierPrefix == <<"T", "i", "e", "r", " ">>
IsDigit(ch) == ch \in Range(Digits)
DigitValue(ch) == (CHOOSE k \in 1..Len(Digits) : Digits[k] = ch) - 1
MatchesAt(s, i) ==
    /\ i + Len(TierPrefix) <= Len(s)
    /\ SubSeq(s, i, i + Len(TierPrefix) - 1) = TierPrefix
    /\ IsDigit(s[i + Len(TierPrefix)])
RECURSIVE ParseDigits(_, _, _)
ParseDigits(s, j, acc) ==
    IF j > Len(s) \/ ~IsDigit(s[j]) THEN acc
    ELSE ParseDigits(s, j + 1, 10 * acc + DigitValue(s[j]))
ExtractTierNum(s) ==
    IF \E i \in 1..Len(s) : MatchesAt(s, i)
    THEN LET i == CHOOSE i \in 1..Len(s) :
                      MatchesAt(s, i) /\ \A j \in 1..(i - 1) : ~MatchesAt(s, j)
         IN  Num(ParseDigits(s, i + Len(TierPrefix), 0))
    ELSE NaN

RECURSIVE WeightedSumFrom(_, _)
WeightedSumFrom(rows, i) ==
    IF i > Len(rows) THEN 0
    ELSE rows[i].Tier_Num.v * rows[i].Emissions + WeightedSumFrom(rows, i + 1)

\* The body of the for loop of calculate_cost_effectiveness for one category:
\* round(4 - weighted_tier, 2), in hundredths; 0/0 is NaN.
CostEffectivenessOf(cat_tier_emissions, category) ==
    LET Score(total_emissions, weighted) ==
            IF total_emissions = 0 THEN NaN
            ELSE Num(RoundDiv(100 * (4 * total_emissions - weighted), total_emissions))
        ScoreOf(category_data) ==
            Score(SumEmissions(category_data), WeightedSumFrom(category_data, 1))
    IN  ScoreOf(SelectSeq(cat_tier_emissions, LAMBDA row : row.Category = category))

\* Returns the dict category -> score (hundredths, or NaN).
calculate_cost_effectiveness(d, cols) ==
    IF IsEmpty(d, cols) \/ ColCategory \notin cols \/ ColTier \notin cols
    THEN Return(<<>>)
    ELSE IF ColEmissions \notin cols THEN Raise("KeyError")
    ELSE LET WithTierNum(grouped) ==
                 [k \in 1..Len(grouped) |->
                     [Category |-> grouped[k].Category, Tier |-> grouped[k].Tier,
                      Emissions |-> grouped[k].Emissions,
                      Tier_Num |-> ExtractTierNum(grouped[k].Tier)]]
             Weights(cat_tier_emissions, categories) ==
                 [k \in 1..Len(categories) |->
                     <<categories[k],
                       CostEffectivenessOf(cat_tier_emissions, categories[k])>>]
             Scored(cat_tier_emissions) ==
                 IF \E k \in 1..Len(cat_tier_emissions) : cat_tier_emissions[k].Tier_Num.nan
                 THEN Raise("ValueError")
                 ELSE Return(Weights(cat_tier_emissions,
                                     UniqueCategories(cat_tier_emissions)))
         IN  Scored(WithTierNum(GroupByCategoryTier(d)))

\* Mutant of TierNumAssigned: the column is written into the caller's frame.
TierNumAssigned_InPlace(cols) == cols \cup {"Tier_Num"}

\* The columns of df after cat_tier_emissions['Tier_Num'] = ...: the column is
\* added to cat_tier_emissions, the frame reset_index() built, and df keeps
\* its own.
TierNumAssigned(cols) == cols

\* The columns of df after a call of calculate_cost_effectiveness with the
\* given outcome: the assignment is reached when the guard lets the frame
\* through and neither the groupby nor astype(int) raises.
ColumnsAfterCostEffectiveness(d, cols, outcome) ==
    IF /\ ~(IsEmpty(d, cols) \/ ColCategory \notin cols \/ ColTier \notin cols)
       /\ outcome.raised = "none"
    THEN TierNumAssigned(cols)
    ELSE cols

\* The columns of df after a call of generate_decarbonization_plan or of
\* calculate_abatement_curve_data with the given outcome; they call
\* calculate_cost_effectiveness once their own guard lets the frame through,
\* and raise what it raises.
ColumnsAfterPlanOrCurve(d, cols, outcome) ==
    IF IsEmpty(d, cols) \/ ColCategory \notin cols \/ ColEmissions \notin cols
    THEN cols
    ELSE ColumnsAfterCostEffectiveness(d, cols, outcome)

\* The action text of a plan entry: the prefix and the template it is
\* formatted into (the generic template carries the category name).
ActionFor(action_prefix, category) ==
    IF category = "Raw Materials"
    THEN <<action_prefix, "supplier engagement program for sustainable materials">>
    ELSE IF category = "Manufacturing"
    THEN <<action_prefix, "energy efficiency measures in manufacturing processes">>
    ELSE IF category = "Transport"
    THEN <<action_prefix, "low-carbon logistics and transportation strategy">>
    ELSE IF category = "Packaging"
    THEN <<action_prefix, "recycled content and packaging optimization program">>
    ELSE IF category = "End of Life"
    THEN <<action_prefix, "product take-back and circular economy initiative">>
    ELSE <<action_prefix, "emissions reduction program for", category>>

\* Mutant of TimeframeFor: the comparisons are >= instead of >.
TimeframeFor_Inclusive(effectiveness) ==
    IF ~effectiveness.nan /\ effectiveness.v >= 250
    THEN [timeframe |-> "short_term", action_prefix |-> "Implement"]
    ELSE IF ~effectiveness.nan /\ effectiveness.v >= 150
    THEN [timeframe |-> "medium_term", action_prefix |-> "Develop"]
    ELSE [timeframe |-> "long_term", action_prefix |-> "Research"]

\* The timeframe and action prefix of a cost-effectiveness score (hundredths).
TimeframeFor(effectiveness) ==
    IF FloatGT(effectiveness, Num(250))
    THEN [timeframe |-> "short_term", action_prefix |-> "Implement"]
    ELSE IF FloatGT(effectiveness, Num(150))
    THEN [timeframe |-> "medium_term", action_prefix |-> "Develop"]
    ELSE [timeframe |-> "long_term", action_prefix |-> "Research"]

EmptyPlan == [short_term |-> <<>>, medium_term |-> <<>>, long_term |-> <<>>]

\* Mutant of PlanLoop: emissions_impact is the decimal product rounded to 1
\* decimal, not the rounded binary64 product.
RECURSIVE PlanLoop_DecimalImpact(_, _, _, _, _)
PlanLoop_DecimalImpact(targets, cost_effectiveness, category_emissions, i, plan) ==
    IF i > Len(targets) THEN plan
    ELSE LET category == targets[i][1]
             reduction_pct == targets[i][2]
             effectiveness == Get(cost_effectiveness, category, Num(200))
             emissions == Get(category_emissions, category, 0)
             tf == TimeframeFor(effectiveness)
             entry == [action |-> ActionFor(tf.action_prefix, category),
                       target_reduction |-> reduction_pct,
                       emissions_impact |-> RoundDiv(emissions * reduction_pct, 1000),
                       cost_effectiveness |-> effectiveness]
         IN  PlanLoop_DecimalImpact(targets, cost_effectiveness, category_emissions, i + 1,
                                    [plan EXCEPT ![tf.timeframe] = Put(@, category, entry)])

\* Mutant of PlanLoop: a category without a cost-effectiveness score is skipped.
RECURSIVE PlanLoop_SkipUnscored(_, _, _, _, _)
PlanLoop_SkipUnscored(targets, cost_effectiveness, category_emissions, i, plan) ==
    IF i > Len(targets) THEN plan
    ELSE IF ~HasKey(cost_effectiveness, targets[i][1])
    THEN PlanLoop_SkipUnscored(targets, cost_effectiveness, category_emissions, i + 1, plan)
    ELSE LET category == targets[i][1]
             reduction_pct == targets[i][2]
             effectiveness == Get(cost_effectiveness, category, Num(200))
             emissions == Get(category_emissions, category, 0)
             tf == TimeframeFor(effectiveness)
             entry == [action |-> ActionFor(tf.action_prefix, category),
                       target_reduction |-> reduction_pct,
                       emissions_impact |-> RoundedReduction(emissions, reduction_pct),
                       cost_effectiveness |-> effectiveness]
         IN  PlanLoop_SkipUnscored(targets, cost_effectiveness, category_emissions, i + 1,
                                   [plan EXCEPT ![tf.timeframe] = Put(@, category, entry)])

\* The for loop of generate_decarbonization_plan over targets.items().
RECURSIVE PlanLoop(_, _, _, _, _)
PlanLoop(targets, cost_effectiveness, category_emissions, i, plan) ==
    IF i > Len(targets) THEN plan
    ELSE LET category == targets[i][1]
             reduction_pct == targets[i][2]
             effectiveness == Get(cost_effectiveness, category, Num(200))
             emissions == Get(category_emissions, category, 0)
             tf == TimeframeFor(effectiveness)
             entry == [action |-> ActionFor(tf.action_prefix, category),
                       target_reduction |-> reduction_pct,
                       emissions_impact |-> RoundedReduction(emissions, reduction_pct),
                       cost_effectiveness |-> effectiveness]
         IN  PlanLoop(targets, cost_effectiveness, category_emissions, i + 1,
                      [plan EXCEPT ![tf.timeframe] = Put(@, category, entry)])

\* Mutant of generate_decarbonization_plan: no category gets a target above
\* target_reduction.
generate_decarbonization_plan_Capped(d, cols, target_reduction) ==
    IF IsEmpty(d, cols) \/ ColCategory \notin cols \/ ColEmissions \notin cols
    THEN Return(EmptyPlan)
    ELSE LET Capped(targets) ==
                 [i \in 1..Len(targets) |->
                     <<targets[i][1],
                       IF targets[i][2] > target_reduction
                       THEN target_reduction ELSE targets[i][2]>>]
             Plan(targets, cost_effectiveness, category_emissions) ==
                 IF cost_effectiveness.raised # "none" THEN Raise(cost_effectiveness.raised)
                 ELSE Return(PlanLoop(Capped(targets.value), cost_effectiveness.value,
                                      category_emissions, 1, EmptyPlan))
         IN  Plan(recommend_reduction_targets(d, cols),
                  calculate_cost_effectiveness(d, cols), GroupByCategory(d))

\* Returns the plan: three dicts category -> entry.
generate_decarbonization_plan(d, cols, target_reduction) ==
    IF IsEmpty(d, cols) \/ ColCategory \notin cols \/ ColEmissions \notin cols
    THEN Return(EmptyPlan)
    ELSE LET Plan(targets, cost_effectiveness, category_emissions) ==
                 IF cost_effectiveness.raised # "none" THEN Raise(cost_effectiveness.raised)
                 ELSE Return(PlanLoop(targets.value, cost_effectiveness.value,
                                      category_emissions, 1, EmptyPlan))
         IN  Plan(recommend_reduction_targets(d, cols),
                  calculate_cost_effectiveness(d, cols), GroupByCategory(d))


\* sorted(abatement_options, key=lambda x: x["cost_per_tco2e"]): CPython's
\* list sort on fewer than 64 items, which is count_run (the leading run,
\* reversed when strictly descending) followed by binarysort (a stable binary
\* insertion of every later item).  The only comparison is key(a) < key(b).
KeyLT(a, b) == FloatLT(a.cost_per_tco2e, b.cost_per_tco2e)
Reverse(s) == [i \in 1..Len(s) |-> s[Len(s) + 1 - i]]
\* count_run: the index of the last item of the run that starts at 1.
RECURSIVE RunEnd(_, _, _)
RunEnd(s, i, descending) ==
    IF i > Len(s) THEN i - 1
    ELSE IF KeyLT(s[i], s[i - 1]) = descending THEN RunEnd(s, i + 1, descending)
    ELSE i - 1
\* binarysort's search for the place of pivot among s[l..r-1].
RECURSIVE BinarySearch(_, _, _, _)
BinarySearch(s, pivot, l, r) ==
    IF l >= r THEN l
    ELSE LET p == l + ((r - l) \div 2)
         IN  IF KeyLT(pivot, s[p]) THEN BinarySearch(s, pivot, l, p)
             ELSE BinarySearch(s, pivot, p + 1, r)
RECURSIVE BinarySort(_, _)
BinarySort(s, start) ==
    IF start > Len(s) THEN s
    ELSE LET l == BinarySearch(s, s[start], 1, start)
             moved == SubSeq(s, 1, l - 1) \o <<s[start]>> \o SubSeq(s, l, start - 1)
                          \o SubSeq(s, start + 1, Len(s))
         IN  BinarySort(moved, start + 1)
SortedByCost(s) ==
    IF Len(s) < 2 THEN s
    ELSE LET descending == KeyLT(s[2], s[1])
             n == RunEnd(s, 3, descending)
             run == IF descending THEN Reverse(SubSeq(s, 1, n)) ELSE SubSeq(s, 1, n)
         IN  BinarySort(run \o SubSeq(s, n + 1, Len(s)), n + 1)

\* (3 - effectiveness) * 50 rounded to 1 decimal, in tenths; NaN stays NaN.
CostOf(effectiveness) ==
    IF effectiveness.nan THEN NaN ELSE Num((300 - effectiveness.v) * 5)

\* Mutant of AbatementOption: every category gets the default target, 20.
AbatementOption_DefaultTarget(category, targets, cost_effectiveness, category_emissions) ==
    LET reduction_pct == 20
        effectiveness == Get(cost_effectiveness, category, Num(200))
        emissions == Get(category_emissions, category, 0)
    IN  [category |-> category,
         abatement_potential |-> RoundedReduction(emissions, reduction_pct),
         cost_per_tco2e |-> CostOf(effectiveness),
         reduction_pct |-> reduction_pct]

\* The body of the for loop of calculate_abatement_curve_data.
AbatementOption(category, targets, cost_effectiveness, category_emissions) ==
    LET reduction_pct == Get(targets, category, 20)
        effectiveness == Get(cost_effectiveness, category, Num(200))
        emissions == Get(category_emissions, category, 0)
    IN  [category |-> category,
         abatement_potential |-> RoundedReduction(emissions, reduction_pct),
         cost_per_tco2e |-> CostOf(effectiveness),
         reduction_pct |-> reduction_pct]

\* Returns the list of abatement options.
calculate_abatement_curve_data(d, cols) ==
    IF IsEmpty(d, cols) \/ ColCategory \notin cols \/ ColEmissions \notin cols
    THEN Return(<<>>)
    ELSE LET Curve(targets, cost_effectiveness, category_emissions) ==
                 IF cost_effectiveness.raised # "none" THEN Raise(cost_effectiveness.raised)
                 ELSE Return(SortedByCost(
                         [k \in 1..Len(category_emissions) |->
                             AbatementOption(category_emissions[k][1], targets.value,
                                             cost_effectiveness.value,
                                             category_emissions)]))
         IN  Curve(recommend_reduction_targets(d, cols),
                   calculate_cost_effectiveness(d, cols), GroupByCategory(d))

(***************************************************************************)
(* src/data/data_processor.py                                              *)
(***************************************************************************)
calculate_category_breakdown(d, cols) ==
    IF IsEmpty(d, cols) \/ ColCategory \notin cols \/ ColEmissions \notin cols
    THEN Return(<<>>)
    ELSE Return(GroupByCategory(d))

calculate_tier_breakdown(d, cols) ==
    IF IsEmpty(d, cols) \/ ColTier \notin cols \/ ColEmissions \notin cols
    THEN Return(<<>>)
    ELSE Return(GroupByTier(d))

\* Returns a frame; the empty frame pd.DataFrame() is the empty sequence.  The
\* frame is grouped by tier first: its rows ascend by tier, then category.
get_tier_category_flow(d, cols) ==
    IF IsEmpty(d, cols) \/ ColTier \notin cols \/ ColCategory \notin cols
    THEN Return(<<>>)
    ELSE IF ColEmissions \notin cols THEN Raise("KeyError")
    ELSE LET ByTier(grouped, tiers) ==
                 LET RowsOfTier(t) == SelectSeq(grouped, LAMBDA row : row.Tier = t)
                     Concat[k \in 0..Len(tiers)] ==
                         IF k = 0 THEN <<>> ELSE Concat[k - 1] \o RowsOfTier(tiers[k])
                 IN  Concat[Len(tiers)]
             Flow(grouped) ==
                 ByTier(grouped,
                        SelectSeq(TierOrder,
                                  LAMBDA t : \E k \in 1..Len(grouped) : grouped[k].Tier = t))
         IN  Return(Flow(GroupByCategoryTier(d)))

RECURSIVE SumQualityFrom(_, _)
SumQualityFrom(d, i) ==
    IF i > Len(d) THEN 0 ELSE d[i].Quality + SumQualityFrom(d, i + 1)
\* Returns a frame with one row per category: the mean of its scores, kept
\* exactly as the fraction sum / count.
get_data_quality_by_category(d, cols) ==
    IF IsEmpty(d, cols) \/ ColCategory \notin cols \/ ColQuality \notin cols
    THEN Return(<<>>)
    ELSE LET present == SelectSeq(CategoryOrder,
                                  LAMBDA c : \E i \in 1..Len(d) : d[i].Category = c)
         IN  Return([k \in 1..Len(present) |->
                        [Category |-> present[k],
                         Quality |-> [sum |-> SumQualityFrom(FilterCategory(d, present[k]), 1),
                                      count |-> Len(FilterCategory(d, present[k]))]]])

RECURSIVE UnitFrom(_, _)
UnitFrom(d, i) == IF i > Len(d) THEN 0 ELSE GCD(d[i].Emissions, UnitFrom(d, i + 1))
RECURSIVE SumUnitsFrom(_, _, _)
SumUnitsFrom(d, u, i) ==
    IF i > Len(d) THEN 0 ELSE (d[i].Emissions \div u) + SumUnitsFrom(d, u, i + 1)
RECURSIVE SumSquaresFrom(_, _, _)
SumSquaresFrom(d, u, i) ==
    IF i > Len(d) THEN 0
    ELSE (d[i].Emissions \div u) * (d[i].Emissions \div u) + SumSquaresFrom(d, u, i + 1)

\* round(K - 1.5 * min(std / mean, 1), 1) in tenths, for K = Kn / n tenths, on
\* the n >= 2 emissions values of d with mean > 0.  std / mean does not depend
\* on the unit of the values, so they are counted in their greatest common
\* unit u.  With S1 the sum and S2 the sum of squares,
\* (std / mean)^2 = n * (n * S2 - S1^2) / ((n - 1) * S1^2) for the sample
\* standard deviation (ddof = 1) pandas computes; the square root is never
\* taken: T is the result when T - 1/2 <= K - 15 * std / mean, which is
\* compared on the squares; a value half way between two tenths goes to the
\* even one.
ScoreWithConsistency(Kn, d) ==
    LET Score(n, S1, dev) ==
            LET Bound(T) == 2 * Kn - 2 * n * T + n
                AtLeast(T) ==
                    /\ Bound(T) >= 0
                    /\ 900 * n * n * dev <= Bound(T) * Bound(T) * (n - 1) * S1 * S1
                Tie(T) ==
                    /\ Bound(T) >= 0
                    /\ 900 * n * n * dev = Bound(T) * Bound(T) * (n - 1) * S1 * S1
                ToEven(T) == IF Tie(T) /\ T % 2 = 1 THEN T - 1 ELSE T
            IN  IF dev >= (n - 1) * S1 * S1
                THEN RoundDiv(Kn - 15 * n, n)
                ELSE ToEven(CHOOSE T \in 0..50 : AtLeast(T) /\ ~AtLeast(T + 1))
        Moments(n, S1, S2) == Score(n, S1, n * (n * S2 - S1 * S1))
        InUnit(u) == Moments(Len(d), SumUnitsFrom(d, u, 1), SumSquaresFrom(d, u, 1))
    IN  InUnit(UnitFrom(d, 1))

\* Returns the score in tenths, or NaN.  The frames of the model hold no
\* missing cell, so completeness is 1.  The standard deviation of a single
\* value is NaN, and min(NaN, 1) is NaN.
calculate_data_quality_score(d, cols) ==
    IF IsEmpty(d, cols) THEN Return(Num(0))
    ELSE LET n == Len(d)
             \* 5 * weight of completeness + 5 * 0.3 (consistency 1) + the
             \* reported quality, times n, in tenths
             Kn == IF ColQuality \in cols
                   THEN 35 * n + 3 * SumQualityFrom(d, 1)
                   ELSE 50 * n
         IN  IF ColEmissions \in cols /\ SumEmissions(d) > 0
             THEN IF n = 1 THEN Return(NaN)
                  ELSE Return(Num(ScoreWithConsistency(Kn, d)))
             ELSE Return(Num(RoundDiv(Kn, n)))

(***************************************************************************)
(* The scenario calculator in binary64.                                    *)
(***************************************************************************)
\* calculate_reduction_scenarios(df, {}) in binary64: the loop over the map
\* does not run, new_total is current_total and the reduction
\* (current_total - new_total) / current_total * 100 is 0.0.
calculate_reduction_scenarios_binary64(d, cols) ==
    IF IsEmpty(d, cols) \/ ColCategory \notin cols \/ ColEmissions \notin cols
    THEN Return([current_total |-> 0, new_total |-> 0, reduction_percentage |-> 0,
                 category_savings |-> <<>>])
    ELSE LET current_total == Binary64SumFrom(d, 1, WideZero)
             new_total == current_total
         IN  Return([current_total |-> Binary64RoundTenths(current_total),
                     new_total |-> Binary64RoundTenths(new_total),
                     reduction_percentage |-> 0,
                     category_savings |-> <<>>])

(***************************************************************************)
(* The state: the arguments of the engine and the outcome of the last      *)
(* call.  The engine keeps no state of its own between calls.              *)
(***************************************************************************)
VARIABLES
    df,                 \* the rows of the dataset
    columns,            \* the column names of the dataset
    reduction_values,   \* the reduction map, a dict category -> percentage
    ret                 \* the last call: [op, arg, raised, value]

vars == <<df, columns, reduction_values, ret>>

\* Reduction maps: the dicts of at most n entries with keys from Cats and
\* percentages from Pcts (the items of a dict have distinct keys).
ReductionMaps(Cats, Pcts, n) ==
    {m \in UNION {[1..k -> Cats \X Pcts] : k \in 0..n} :
        \A i, j \in 1..Len(m) : i # j => m[i][1] # m[j][1]}

\* The values of the target_reduction argument of generate_decarbonization_plan.
TargetReductions == {30, 50}

InitWith(DS, CS, RV) ==
    /\ df \in DS
    /\ columns \in CS
    /\ reduction_values \in RV
    /\ ret = NoCall

Call_calculate_reduction_scenarios ==
    /\ ret' = Called("calculate_reduction_scenarios", <<>>,
                     calculate_reduction_scenarios(df, columns, reduction_values))
    /\ UNCHANGED <<df, columns, reduction_values>>

Call_recommend_reduction_targets ==
    /\ ret' = Called("recommend_reduction_targets", <<>>,
                     recommend_reduction_targets(df, columns))
    /\ UNCHANGED <<df, columns, reduction_values>>

Call_calculate_cost_effectiveness ==
    \E outcome \in {calculate_cost_effectiveness(df, columns)} :
        /\ ret' = Called("calculate_cost_effectiveness", <<>>, outcome)
        /\ columns' = ColumnsAfterCostEffectiveness(df, columns, outcome)
        /\ UNCHANGED <<df, reduction_values>>

Call_generate_decarbonization_plan ==
    \E target_reduction \in TargetReductions :
        \E outcome \in {generate_decarbonization_plan(df, columns, target_reduction)} :
            /\ ret' = Called("generate_decarbonization_plan", <<target_reduction>>, outcome)
            /\ columns' = ColumnsAfterPlanOrCurve(df, columns, outcome)
            /\ UNCHANGED <<df, reduction_values>>

Call_calculate_abatement_curve_data ==
    \E outcome \in {calculate_abatement_curve_data(df, columns)} :
        /\ ret' = Called("calculate_abatement_curve_data", <<>>, outcome)
        /\ columns' = ColumnsAfterPlanOrCurve(df, columns, outcome)
        /\ UNCHANGED <<df, reduction_values>>

Call_calculate_category_breakdown ==
    /\ ret' = Called("calculate_category_breakdown", <<>>,
                     calculate_category_breakdown(df, columns))
    /\ UNCHANGED <<df, columns, reduction_values>>

Call_calculate_tier_breakdown ==
    /\ ret' = Called("calculate_tier_breakdown", <<>>,
                     calculate_tier_breakdown(df, columns))
    /\ UNCHANGED <<df, columns, reduction_values>>

Call_get_tier_category_flow ==
    /\ ret' = Called("get_tier_category_flow", <<>>,
                     get_tier_category_flow(df, columns))
    /\ UNCHANGED <<df, columns, reduction_values>>

Call_get_data_quality_by_category ==
    /\ ret' = Called("get_data_quality_by_category", <<>>,
                     get_data_quality_by_category(df, columns))
    /\ UNCHANGED <<df, columns, reduction_values>>

Call_calculate_data_quality_score ==
    /\ ret' = Called("calculate_data_quality_score", <<>>,
                     calculate_data_quality_score(df, columns))
    /\ UNCHANGED <<df, columns, reduction_values>>

(***************************************************************************)
(* Spec: every operation on datasets with well-formed tiers, with all the  *)
(* columns or with one of them missing.                                    *)
(***************************************************************************)
ColumnSets == {AllColumns} \cup {AllColumns \ {c} : c \in AllColumns}

Init ==
    InitWith(Datasets(RowsOf({"Manufacturing", "Transport"}, {Tier1, Tier3},
                             {0, 100}, {3}), MaxRows),
             ColumnSets,
             {<< <<"Manufacturing", 20>> >>})

Next ==
    \/ Call_calculate_reduction_scenarios
    \/ Call_recommend_reduction_targets
    \/ Call_calculate_cost_effectiveness
    \/ Call_generate_decarbonization_plan
    \/ Call_calculate_abatement_curve_data
    \/ Call_calculate_category_breakdown
    \/ Call_calculate_tier_breakdown
    \/ Call_get_tier_category_flow
    \/ Call_get_data_quality_by_category
    \/ Call_calculate_data_quality_score

Spec == Init /\ [][Next]_vars

(***************************************************************************)
(* SpecScenario: the scenario calculator on datasets whose emissions have  *)
(* fractions of a tCO2e, under reduction maps with percentages in [0,100]. *)
(***************************************************************************)
InitScenario ==
    InitWith(Datasets(RowsOf({"Manufacturing", "Transport"}, {Tier1},
                             {0, 75, 100}, {3}), MaxRows),
             {AllColumns},
             ReductionMaps({"Manufacturing", "Raw Materials", "Transport"},
                           {0, 50, 100}, MaxMap))

NextScenario == Call_calculate_reduction_scenarios

SpecScenario == InitScenario /\ [][NextScenario]_vars

(***************************************************************************)
(* SpecShares: the target recommender on datasets whose category shares    *)
(* reach the thresholds 10, 20 and 30 percent exactly.                     *)
(***************************************************************************)
InitShares ==
    InitWith(Datasets(RowsOf({"Manufacturing", "Transport"}, {Tier1},
                             {0, 100, 300, 600}, {3}), MaxRows),
             {AllColumns},
             {<<>>})

NextShares == Call_recommend_reduction_targets

SpecShares == InitShares /\ [][NextShares]_vars

(***************************************************************************)
(* SpecTiers: the operations that parse the Tier column, on datasets with  *)
(* well-formed and malformed tier values, with or without the column.      *)
(***************************************************************************)
InitTiers ==
    InitWith(Datasets(RowsOf({"Manufacturing", "Transport"},
                             {Tier1, Tier2, Tier3, Tier2b, Level1},
                             {100}, {3}), MaxRows),
             {AllColumns, AllColumns \ {ColTier}},
             {<<>>})

NextTiers ==
    \/ Call_calculate_cost_effectiveness
    \/ Call_generate_decarbonization_plan
    \/ Call_calculate_abatement_curve_data

SpecTiers == InitTiers /\ [][NextTiers]_vars

(***************************************************************************)
(* SpecExample: the scenario calculator on datasets of hundreds of tCO2e,  *)
(* under maps of 10 and 20 percent.                                        *)
(***************************************************************************)
InitExample ==
    InitWith(Datasets(RowsOf({"Manufacturing", "Raw Materials"}, {Tier1},
                             {50000, 100000}, {3}), MaxRows),
             {AllColumns},
             ReductionMaps({"Manufacturing", "Raw Materials"}, {10, 20}, MaxMap))

NextExample == Call_calculate_reduction_scenarios

SpecExample == InitExample /\ [][NextExample]_vars

(***************************************************************************)
(* SpecCurve: the curve builder on datasets of up to MaxCategories         *)
(* categories, some of them with emissions 0.                              *)
(***************************************************************************)
InitCurve ==
    InitWith(OnePerCategory({Tier1, Tier2}, {0, 100}, MaxCategories),
             {AllColumns},
             {<<>>})

NextCurve == Call_calculate_abatement_curve_data

SpecCurve == InitCurve /\ [][NextCurve]_vars

(***************************************************************************)
(* SpecDecimal: the scenario calculator, under the empty reduction map, on *)
(* datasets whose emissions are decimal fractions of a tCO2e that binary64 *)
(* does not represent exactly; the totals are computed in binary64.        *)
(***************************************************************************)
InitDecimal ==
    InitWith(Datasets(RowsOf({"Manufacturing"}, {Tier1}, {1, 6, 11, 48, 143}, {3}), MaxRows),
             {AllColumns}, {<<>>})

Call_calculate_reduction_scenarios_binary64 ==
    /\ reduction_values = <<>>
    /\ ret' = Called("calculate_reduction_scenarios", <<>>,
                     calculate_reduction_scenarios_binary64(df, columns))
    /\ UNCHANGED <<df, columns, reduction_values>>

NextDecimal == Call_calculate_reduction_scenarios_binary64

SpecDecimal == InitDecimal /\ [][NextDecimal]_vars

(***************************************************************************)
(* SpecOutOfRange: the scenario calculator under reduction maps that hold  *)
(* percentages below 0 and above 100.                                      *)
(***************************************************************************)
InitOutOfRange ==
    InitWith(Datasets(RowsOf({"Manufacturing", "Transport"}, {Tier1},
                             {0, 25, 100}, {3}), MaxRows),
             {AllColumns},
             ReductionMaps({"Manufacturing", "Transport"}, {-50, 0, 50, 150}, MaxMap))

NextOutOfRange == Call_calculate_reduction_scenarios

SpecOutOfRange == InitOutOfRange /\ [][NextOutOfRange]_vars

(***************************************************************************)
(* Properties.                                                             *)
(***************************************************************************)
\* The categories of the dataset.
DatasetCategories == {df[i].Category : i \in 1..Len(df)}
\* The call whose outcome ret holds.
IsCall(op) == ret.op = op
\* The dataset has the columns the scenario calculator, the recommender, the
\* plan generator and the curve builder require.
HasRequiredColumns == {ColCategory, ColEmissions} \subseteq columns
\* Every percentage of the reduction map lies in [0,100].
PercentagesInRange ==
    \A i \in 1..Len(reduction_values) :
        reduction_values[i][2] >= 0 /\ reduction_values[i][2] <= 100
\* The sum of the returned per-category savings, in tenths.
ReturnedSavings == SumValuesFrom(ret.value.category_savings, 1)

\* C1, as stated: for a dataset with the required columns and percentages in
\* [0,100], the returned savings sum to at most the returned current_total and
\* the returned new_total is the returned current_total minus that sum.
C1_Original ==
    (IsCall("calculate_reduction_scenarios") /\ HasRequiredColumns /\ PercentagesInRange)
        => /\ ReturnedSavings <= ret.value.current_total
           /\ ret.value.new_total = ret.value.current_total - ReturnedSavings

\* C1, amended: the two relations hold of the returned figures up to the
\* rounding of each figure to one decimal.  With k entries in the map (figures
\* in tenths, so 0.05 tCO2e is half a tenth): the savings sum to at most
\* current_total + 0.05 * (k + 1), and new_total differs from current_total
\* minus the savings by at most 0.05 * (k + 2).
C1_UpToRounding ==
    (IsCall("calculate_reduction_scenarios") /\ HasRequiredColumns /\ PercentagesInRange)
        => LET k == Len(reduction_values)
           IN  /\ 2 * (ReturnedSavings - ret.value.current_total) <= k + 1
               /\ 2 * Abs(ret.value.new_total
                            - (ret.value.current_total - ReturnedSavings)) <= k + 2

\* C1, witness: a call with two entries, savings above zero, where the rounding
\* of the returned figures shows.
C1_Witness ==
    /\ IsCall("calculate_reduction_scenarios") /\ HasRequiredColumns /\ PercentagesInRange
    /\ Len(reduction_values) = 2
    /\ ReturnedSavings > ret.value.current_total
    /\ ret.value.new_total # ret.value.current_total - ReturnedSavings

\* The map assigns 100 to every category of the dataset.
AllHundred == \A c \in DatasetCategories : Get(reduction_values, c, -1) = 100

\* C8, as stated, on the datasets with at least one record (those the guard
\* lets through): a map that assigns 100 to every category of the dataset gives
\* new_total 0 and reduction_percentage 100.
C8_Original ==
    (IsCall("calculate_reduction_scenarios") /\ HasRequiredColumns /\ AllHundred
        /\ Len(df) > 0)
        => ret.value.new_total = 0 /\ ret.value.reduction_percentage = 1000

\* C8, amended: the same for a dataset whose total emissions is greater than 0
\* (a dataset of total 0, the empty one included, gives reduction_percentage 0).
C8_PositiveTotal ==
    (IsCall("calculate_reduction_scenarios") /\ HasRequiredColumns /\ AllHundred
        /\ SumEmissions(df) > 0)
        => ret.value.new_total = 0 /\ ret.value.reduction_percentage = 1000

\* C8, witness: two categories with emissions, both reduced by 100 percent.
C8_Witness ==
    /\ IsCall("calculate_reduction_scenarios") /\ HasRequiredColumns /\ AllHundred
    /\ Cardinality(DatasetCategories) = 2
    /\ \A c \in DatasetCategories : SumEmissions(FilterCategory(df, c)) > 0
    /\ ret.value.new_total = 0 /\ ret.value.reduction_percentage = 1000

\* Every percentage of the reduction map is 0.
AllZero == \A i \in 1..Len(reduction_values) : reduction_values[i][2] = 0
\* The returned savings map has the entry 0 for every category of the map.
ZeroSavingsForEveryKey ==
    \A i \in 1..Len(reduction_values) :
        /\ HasKey(ret.value.category_savings, reduction_values[i][1])
        /\ Get(ret.value.category_savings, reduction_values[i][1], -1) = 0

\* C9, as stated: an all-zero map gives new_total equal to current_total,
\* reduction_percentage 0 and a savings of 0 for every category of the map.
C9_Original ==
    (IsCall("calculate_reduction_scenarios") /\ HasRequiredColumns /\ AllZero)
        => /\ ret.value.new_total = ret.value.current_total
           /\ ret.value.reduction_percentage = 0
           /\ ZeroSavingsForEveryKey

\* C9, amended: the same for a dataset with at least one record (on a dataset
\* with no record the savings map returned is empty).
C9_NonEmpty ==
    (IsCall("calculate_reduction_scenarios") /\ HasRequiredColumns /\ AllZero
        /\ Len(df) > 0)
        => /\ ret.value.new_total = ret.value.current_total
           /\ ret.value.reduction_percentage = 0
           /\ ZeroSavingsForEveryKey

\* C9, witness: a dataset with emissions and a map of two entries, both 0.
C9_Witness ==
    /\ IsCall("calculate_reduction_scenarios") /\ HasRequiredColumns /\ AllZero
    /\ Len(reduction_values) = 2 /\ SumEmissions(df) > 0
    /\ ret.value.new_total = ret.value.current_total
    /\ ret.value.current_total > 0
    /\ ZeroSavingsForEveryKey

\* The reduction the map asks for, exactly, in ten-thousandths of a tCO2e:
\* the sum over the entries of category emissions times percentage.
ExactReduction ==
    LET Part[i \in 0..Len(reduction_values)] ==
            IF i = 0 THEN 0
            ELSE Part[i - 1] + reduction_values[i][2]
                     * SumEmissions(FilterCategory(df, reduction_values[i][1]))
    IN  Part[Len(reduction_values)]

\* C10: with current_total the total emissions of the dataset and new_total
\* that total less the reductions, the returned reduction_percentage is
\* 100 * (current_total - new_total) / current_total at one decimal when the
\* total is above 0, and it is 0, with no error, when the total is 0.
C10_ReductionPercentage ==
    (IsCall("calculate_reduction_scenarios") /\ HasRequiredColumns)
        => /\ ret.raised = "none"
           /\ IF SumEmissions(df) > 0
              THEN ret.value.reduction_percentage
                       = RoundDiv(1000 * ExactReduction, 100 * SumEmissions(df))
              ELSE ret.value.reduction_percentage = 0

\* C10, witness: a dataset of total 0 with records and a map that asks for a
\* reduction, answered with 0.
C10_Witness ==
    /\ IsCall("calculate_reduction_scenarios") /\ HasRequiredColumns
    /\ Len(df) > 0 /\ SumEmissions(df) = 0
    /\ \E i \in 1..Len(reduction_values) :
          reduction_values[i][2] > 0 /\ reduction_values[i][1] \in DatasetCategories
    /\ ret.raised = "none" /\ ret.value.reduction_percentage = 0

\* C5: the target of a category follows its share of the total with strict
\* comparisons, top-down: above 30 gives 35, else above 20 gives 30, else above
\* 10 gives 25, else 20; a share of exactly 30 gives 30, exactly 20 gives 25,
\* exactly 10 gives 20, and a share of 40 gives 35.  (Shares are compared as
\* 100 * category emissions against threshold * total.)
C5_Thresholds ==
    (IsCall("recommend_reduction_targets") /\ HasRequiredColumns
        /\ Len(df) > 0 /\ SumEmissions(df) > 0)
        => \A c \in DatasetCategories :
              LET e == 100 * SumEmissions(FilterCategory(df, c))
                  t == SumEmissions(df)
                  target == Get(ret.value, c, -1)
              IN  /\ (e > 30 * t) => target = 35
                  /\ (e <= 30 * t /\ e > 20 * t) => target = 30
                  /\ (e <= 20 * t /\ e > 10 * t) => target = 25
                  /\ (e <= 10 * t) => target = 20
                  /\ (e = 30 * t) => target = 30
                  /\ (e = 20 * t) => target = 25
                  /\ (e = 10 * t) => target = 20
                  /\ (e = 40 * t) => target = 35

\* The share of category c is exactly k percent and its target is target.
ShareGives(c, k, target) ==
    /\ c \in DatasetCategories
    /\ 100 * SumEmissions(FilterCategory(df, c)) = k * SumEmissions(df)
    /\ Get(ret.value, c, -1) = target

\* C5, witness: a share of exactly 30 percent, answered with 30.
C5_Witness ==
    /\ IsCall("recommend_reduction_targets") /\ HasRequiredColumns
    /\ SumEmissions(df) > 0
    /\ ShareGives("Manufacturing", 30, 30)

\* C6: on a dataset with records and the Category and Emissions columns, of
\* total zero included, the recommender returns without error a map whose keys
\* are exactly the categories of the dataset, each once, with every value one
\* of 35, 30, 25, 20.
C6_OneTargetPerCategory ==
    (IsCall("recommend_reduction_targets") /\ HasRequiredColumns /\ Len(df) > 0)
        => /\ ret.raised = "none"
           /\ Keys(ret.value) = DatasetCategories
           /\ Len(ret.value) = Cardinality(DatasetCategories)
           /\ \A i \in 1..Len(ret.value) : ret.value[i][2] \in {35, 30, 25, 20}

\* C6, witness: two categories, every record with emissions 0.
C6_Witness ==
    /\ IsCall("recommend_reduction_targets") /\ HasRequiredColumns
    /\ Cardinality(DatasetCategories) = 2 /\ SumEmissions(df) = 0
    /\ Keys(ret.value) = DatasetCategories
    /\ \A i \in 1..Len(ret.value) : ret.value[i][2] = 20

\* The three buckets of the returned plan partition the categories of the
\* dataset: every category is a key of exactly one bucket, and every key of a
\* bucket is a category of the dataset.
Buckets == <<ret.value.short_term, ret.value.medium_term, ret.value.long_term>>
BucketsPartitionCategories ==
    /\ \A c \in DatasetCategories :
          Cardinality({b \in 1..3 : HasKey(Buckets[b], c)}) = 1
    /\ \A b \in 1..3 :
          /\ Keys(Buckets[b]) \subseteq DatasetCategories
          /\ Len(Buckets[b]) = Cardinality(Keys(Buckets[b]))

\* C3, as stated: whenever generate_decarbonization_plan returns a plan, its
\* buckets partition the categories of the dataset.
C3_Original ==
    (IsCall("generate_decarbonization_plan") /\ ColCategory \in columns
        /\ ret.raised = "none")
        => BucketsPartitionCategories

\* C3, amended: the same for a dataset that has the Category and Emissions
\* columns (without the Emissions column the plan returned has three empty
\* buckets, whatever the categories).
C3_Partition ==
    (IsCall("generate_decarbonization_plan") /\ HasRequiredColumns
        /\ ret.raised = "none")
        => BucketsPartitionCategories

\* C3, witness: a plan for two categories that land in different buckets.
C3_Witness ==
    /\ IsCall("generate_decarbonization_plan") /\ HasRequiredColumns
    /\ ret.raised = "none"
    /\ Cardinality(DatasetCategories) = 2
    /\ Len(ret.value.short_term) = 1 /\ Len(ret.value.long_term) = 1
    /\ BucketsPartitionCategories

\* a <= b on floats: FALSE when either is NaN.
FloatLE(a, b) == ~a.nan /\ ~b.nan /\ a.v <= b.v

\* C4: the sequence calculate_abatement_curve_data returns is non-decreasing
\* by cost_per_tco2e: each option's cost is <= the cost of the next one.
C4_SortedByCost ==
    (IsCall("calculate_abatement_curve_data") /\ ret.raised = "none")
        => \A i \in 1..(Len(ret.value) - 1) :
              FloatLE(ret.value[i].cost_per_tco2e, ret.value[i + 1].cost_per_tco2e)

\* The columns an operation reads.
ReadColumns(op) ==
    CASE op = "calculate_reduction_scenarios" -> {ColCategory, ColEmissions}
      [] op = "recommend_reduction_targets" -> {ColCategory, ColEmissions}
      [] op = "calculate_cost_effectiveness" -> {ColCategory, ColTier, ColEmissions}
      [] op = "generate_decarbonization_plan" -> {ColCategory, ColEmissions}
      [] op = "calculate_abatement_curve_data" -> {ColCategory, ColEmissions}
      [] op = "calculate_category_breakdown" -> {ColCategory, ColEmissions}
      [] op = "calculate_tier_breakdown" -> {ColTier, ColEmissions}
      [] op = "get_tier_category_flow" -> {ColTier, ColCategory, ColEmissions}
      [] op = "get_data_quality_by_category" -> {ColCategory, ColQuality}
      [] OTHER -> {}

\* The empty/default result of an operation.
DefaultResult(op) ==
    CASE op = "calculate_reduction_scenarios" ->
             [current_total |-> 0, new_total |-> 0, reduction_percentage |-> 0,
              category_savings |-> <<>>]
      [] op = "generate_decarbonization_plan" ->
             [short_term |-> <<>>, medium_term |-> <<>>, long_term |-> <<>>]
      [] OTHER -> <<>>

\* C2: when a column the operation reads is absent from a dataset with
\* records, the operation does not raise and returns its empty/default result.
C2_MissingColumn ==
    (ret.op # "none" /\ Len(df) > 0 /\ ~(ReadColumns(ret.op) \subseteq columns))
        => ret.raised = "none" /\ ret.value = DefaultResult(ret.op)

\* A Tier value matches 'Tier N' with N a positive integer: the prefix, then
\* digits only, of a value above 0.
WellFormedTier(s) ==
    /\ Len(s) > Len(TierPrefix)
    /\ SubSeq(s, 1, Len(TierPrefix)) = TierPrefix
    /\ \A j \in (Len(TierPrefix) + 1)..Len(s) : IsDigit(s[j])
    /\ ParseDigits(s, Len(TierPrefix) + 1, 0) > 0

\* C7: if the Tier value of any record does not match 'Tier N',
\* calculate_cost_effectiveness, generate_decarbonization_plan and
\* calculate_abatement_curve_data all fail with an error.
C7_MalformedTierFails ==
    (/\ ret.op \in {"calculate_cost_effectiveness", "generate_decarbonization_plan",
                    "calculate_abatement_curve_data"}
     /\ AllColumns \subseteq columns
     /\ \E i \in 1..Len(df) : ~WellFormedTier(df[i].Tier))
        => ret.raised # "none"

\* The result of an operation on a dataset with no record.
EmptyResult(op) ==
    IF op = "calculate_data_quality_score" THEN Num(0) ELSE DefaultResult(op)

\* C11: on a dataset with zero records every operation returns its
\* empty/default result and does not raise: (0, 0, 0, {}) for the scenario
\* calculator, empty maps for the recommender, the estimator and the
\* breakdowns, three empty buckets for the plan, the empty sequence for the
\* curve, empty frames for the flow and the quality by category, and 0 for the
\* data quality score.
C11_EmptyDataset ==
    (ret.op # "none" /\ Len(df) = 0)
        => ret.raised = "none" /\ ret.value = EmptyResult(ret.op)

\* C11, witness: the plan generator called on a dataset with all the columns
\* and no record, answered with the three empty buckets.
C11_Witness ==
    /\ IsCall("generate_decarbonization_plan") /\ Len(df) = 0 /\ columns = AllColumns
    /\ ret.raised = "none"
    /\ ret.value = [short_term |-> <<>>, medium_term |-> <<>>, long_term |-> <<>>]

\* The scores calculate_cost_effectiveness gives for the dataset.
Scores == calculate_cost_effectiveness(df, columns).value
\* Category c is in the given bucket of the returned plan and in no other, and
\* its action starts with the given prefix.
PlacedIn(c, bucket, prefix) ==
    /\ HasKey(ret.value[bucket], c)
    /\ \A b \in {"short_term", "medium_term", "long_term"} \ {bucket} :
          ~HasKey(ret.value[b], c)
    /\ Get(ret.value[bucket], c, <<>>).action[1] = prefix

\* C12: in the returned plan the bucket of a category follows from its
\* cost-effectiveness score alone: above 2.5 short_term with 'Implement', else
\* above 1.5 medium_term with 'Develop', else long_term with 'Research';
\* exactly 2.5 is medium_term, exactly 1.5 is long_term, and a category with
\* no score counts as 2.0, medium_term.
C12_BucketByScore ==
    (IsCall("generate_decarbonization_plan") /\ HasRequiredColumns /\ Len(df) > 0
        /\ ret.raised = "none")
        => \A c \in DatasetCategories :
              LET score == Get(Scores, c, Num(200))
              IN  /\ FloatGT(score, Num(250)) => PlacedIn(c, "short_term", "Implement")
                  /\ (~FloatGT(score, Num(250)) /\ FloatGT(score, Num(150)))
                        => PlacedIn(c, "medium_term", "Develop")
                  /\ (~FloatGT(score, Num(250)) /\ ~FloatGT(score, Num(150)))
                        => PlacedIn(c, "long_term", "Research")
                  /\ score = Num(250) => PlacedIn(c, "medium_term", "Develop")
                  /\ score = Num(150) => PlacedIn(c, "long_term", "Research")
                  /\ ~HasKey(Scores, c) => PlacedIn(c, "medium_term", "Develop")

\* C12, witness: a plan with one category of score exactly 2.5 in medium_term
\* and another of score 1.0 in long_term.
C12_Witness ==
    /\ IsCall("generate_decarbonization_plan") /\ HasRequiredColumns
    /\ ret.raised = "none"
    /\ Get(Scores, "Manufacturing", NaN) = Num(250)
    /\ PlacedIn("Manufacturing", "medium_term", "Develop")
    /\ Get(Scores, "Transport", NaN) = Num(100)
    /\ PlacedIn("Transport", "long_term", "Research")

\* The sum over the records of category c of tier number times emissions.
RECURSIVE TierWeightedFrom(_, _)
TierWeightedFrom(rows, i) ==
    IF i > Len(rows) THEN 0
    ELSE ExtractTierNum(rows[i].Tier).v * rows[i].Emissions + TierWeightedFrom(rows, i + 1)
\* Every record of category c has the given tier.
UniformTier(c, tier) == \A i \in 1..Len(df) : df[i].Category = c => df[i].Tier = tier

\* C13: calculate_cost_effectiveness returns for each category 4 minus the
\* emissions-weighted mean of the tier number over the category's records, at
\* two decimals; a category whose records are all Tier 1 scores exactly 3.0
\* and one whose records are all Tier 3 scores exactly 1.0.
C13_WeightedTierScore ==
    (IsCall("calculate_cost_effectiveness") /\ columns = AllColumns /\ Len(df) > 0
        /\ ret.raised = "none")
        => \A c \in DatasetCategories :
              LET rows == FilterCategory(df, c)
                  total == SumEmissions(rows)
                  score == Get(ret.value, c, NaN)
              IN  /\ HasKey(ret.value, c)
                  /\ total > 0 =>
                        score = Num(RoundDiv(100 * (4 * total - TierWeightedFrom(rows, 1)),
                                             total))
                  /\ UniformTier(c, Tier1) => score = Num(300)
                  /\ UniformTier(c, Tier3) => score = Num(100)

\* The returned savings map has, for every key of the reduction map, the
\* category's total emissions times percentage / 100, at one decimal.
SavingsByFormula ==
    \A i \in 1..Len(reduction_values) :
        LET category == reduction_values[i][1]
        IN  /\ HasKey(ret.value.category_savings, category)
            /\ Get(ret.value.category_savings, category, -1)
                  = RoundDiv(SumEmissions(FilterCategory(df, category))
                                 * reduction_values[i][2], 1000)
\* The dataset of the example: Raw Materials totalling 1000 and Manufacturing
\* totalling 500, with the map {Raw Materials: 20, Manufacturing: 10}.
IsExample ==
    /\ DatasetCategories = {"Raw Materials", "Manufacturing"}
    /\ SumEmissions(FilterCategory(df, "Raw Materials")) = 100000
    /\ SumEmissions(FilterCategory(df, "Manufacturing")) = 50000
    /\ Keys(reduction_values) = {"Raw Materials", "Manufacturing"}
    /\ Get(reduction_values, "Raw Materials", -1) = 20
    /\ Get(reduction_values, "Manufacturing", -1) = 10
\* The figures of the example: savings 200.0 and 50.0, current_total 1500.0,
\* new_total 1250.0, reduction_percentage 16.7.
ExampleFigures ==
    /\ Keys(ret.value.category_savings) = {"Raw Materials", "Manufacturing"}
    /\ Get(ret.value.category_savings, "Raw Materials", -1) = 2000
    /\ Get(ret.value.category_savings, "Manufacturing", -1) = 500
    /\ ret.value.current_total = 15000
    /\ ret.value.new_total = 12500
    /\ ret.value.reduction_percentage = 167

\* C14, as stated: for every key of the reduction map the returned savings is
\* the category's total emissions times percentage / 100 at one decimal, and
\* the example gives its figures.
C14_Original ==
    (IsCall("calculate_reduction_scenarios") /\ HasRequiredColumns)
        => /\ SavingsByFormula
           /\ IsExample => ExampleFigures

\* C14, amended: the same on a dataset with at least one record (on a dataset
\* with no record the savings map returned is empty).
C14_SavingsByFormula ==
    (IsCall("calculate_reduction_scenarios") /\ HasRequiredColumns /\ Len(df) > 0)
        => /\ SavingsByFormula
           /\ IsExample => ExampleFigures

\* C14, witness: the example, answered with its figures.
C14_Witness ==
    /\ IsCall("calculate_reduction_scenarios") /\ HasRequiredColumns
    /\ IsExample /\ ExampleFigures /\ SavingsByFormula

\* The place of a category in the iteration order of the grouped per-category
\* emissions map (the keys of a groupby are in ascending order).
CategoryIndex(c) == CHOOSE k \in 1..Len(CategoryOrder) : CategoryOrder[k] = c

\* C15: options of equal cost_per_tco2e are returned in the relative order in
\* which their categories are iterated in the grouped per-category emissions
\* map.
C15_StableOnTies ==
    (IsCall("calculate_abatement_curve_data") /\ ret.raised = "none")
        => \A i, j \in 1..Len(ret.value) :
              (/\ i < j
               /\ ~ret.value[i].cost_per_tco2e.nan
               /\ ret.value[i].cost_per_tco2e = ret.value[j].cost_per_tco2e)
                  => CategoryIndex(ret.value[i].category)
                         < CategoryIndex(ret.value[j].category)

Permuted(d, p) == [i \in 1..Len(d) |-> d[p[i]]]
RowOrders(n) == {p \in [1..n -> 1..n] : \A i, j \in 1..n : i # j => p[i] # p[j]}

\* C17: what calculate_reduction_scenarios returned for the dataset is what
\* it returns for the same records in any other order.
C17_OrderIndependent ==
    IsCall("calculate_reduction_scenarios")
        => \A p \in RowOrders(Len(df)) :
              LET r == calculate_reduction_scenarios_binary64(Permuted(df, p), columns)
              IN  r.raised = ret.raised /\ r.value = ret.value

\* The reduction map has a negative percentage and none above 100.
OnlyNegativeOutOfRange ==
    /\ \E i \in 1..Len(reduction_values) : reduction_values[i][2] < 0
    /\ \A i \in 1..Len(reduction_values) : reduction_values[i][2] <= 100
\* The returned saving of the category of item i of the reduction map, in
\* tenths (1 when the savings map has no such key).
ReturnedSaving(i) == Get(ret.value.category_savings, reduction_values[i][1], 1)
\* The exact new_total, in ten-thousandths: the dataset's total minus, for
\* every item of the map, the category's total times percentage / 100.
RECURSIVE ExactSavingsFrom(_)
ExactSavingsFrom(i) ==
    IF i > Len(reduction_values) THEN 0
    ELSE SumEmissions(FilterCategory(df, reduction_values[i][1])) * reduction_values[i][2]
             + ExactSavingsFrom(i + 1)
ExactNewTotal == 100 * SumEmissions(df) - ExactSavingsFrom(1)

\* C18, as stated: a map whose only out-of-range percentages are negative is
\* answered, with a negative saving for every category of a negative
\* percentage and a new_total that is at least current_total.
C18_Original ==
    (IsCall("calculate_reduction_scenarios") /\ HasRequiredColumns /\ OnlyNegativeOutOfRange)
        => /\ ret.raised = "none"
           /\ \A i \in 1..Len(reduction_values) :
                 reduction_values[i][2] < 0 => ReturnedSaving(i) < 0
           /\ ret.value.new_total >= ret.value.current_total

\* C18, amended: on a dataset with at least one record any map is answered,
\* whatever its percentages, with every saving and new_total computed by the
\* formula; the saving of a negative percentage is never positive and is
\* negative when the category's total times the percentage / 100 is beyond
\* -0.05 tCO2e, and a map with no positive percentage gives a new_total that
\* is at least current_total.
C18_SameFormula ==
    (IsCall("calculate_reduction_scenarios") /\ HasRequiredColumns /\ Len(df) > 0)
        => /\ ret.raised = "none"
           /\ SavingsByFormula
           /\ ret.value.new_total = RoundDiv(ExactNewTotal, 1000)
           /\ \A i \in 1..Len(reduction_values) :
                 LET category_emissions ==
                         SumEmissions(FilterCategory(df, reduction_values[i][1]))
                     reduction_pct == reduction_values[i][2]
                 IN  reduction_pct < 0 =>
                        /\ ReturnedSaving(i) <= 0
                        /\ category_emissions * reduction_pct < -500 => ReturnedSaving(i) < 0
           /\ (\A i \in 1..Len(reduction_values) : reduction_values[i][2] <= 0)
                 => ret.value.new_total >= ret.value.current_total

\* C18, witness: a map with a percentage below 0 and one above 100 has been
\* answered with a negative saving, a saving larger than the category's
\* total, and the new_total they give.
C18_Witness ==
    /\ IsCall("calculate_reduction_scenarios") /\ HasRequiredColumns
    /\ ret.raised = "none"
    /\ SumEmissions(FilterCategory(df, "Manufacturing")) = 100
    /\ SumEmissions(FilterCategory(df, "Transport")) = 100
    /\ reduction_values = <<<<"Manufacturing", -50>>, <<"Transport", 150>>>>
    /\ ret.value.category_savings = <<<<"Manufacturing", -5>>, <<"Transport", 15>>>>
    /\ ret.value.current_total = 20 /\ ret.value.new_total = 10

\* The recommended targets of the dataset.
Targets == recommend_reduction_targets(df, columns).value
\* Option k of the returned curve has the cost (3 - score) * 50, not-a-number
\* when the score is.
CostByFormula(k, score) ==
    IF score.nan THEN ret.value[k].cost_per_tco2e.nan
    ELSE ret.value[k].cost_per_tco2e = Num((300 - score.v) * 5)
\* The returned curve has one option for every category of the dataset and
\* no other.
OneOptionPerCategory ==
    /\ Len(ret.value) = Cardinality(DatasetCategories)
    /\ {ret.value[k].category : k \in 1..Len(ret.value)} = DatasetCategories

\* C19, as stated: whenever calculate_abatement_curve_data returns, the curve
\* has one option per category of the dataset, each with the cost
\* (3 - the category's score) * 50 and with the potential the category's total
\* times its recommended target / 100.
C19_Original ==
    (IsCall("calculate_abatement_curve_data") /\ ret.raised = "none")
        => /\ OneOptionPerCategory
           /\ \A k \in 1..Len(ret.value) :
                 LET category == ret.value[k].category
                     emissions == SumEmissions(FilterCategory(df, category))
                 IN  /\ HasKey(Scores, category)
                     /\ CostByFormula(k, Get(Scores, category, NaN))
                     /\ HasKey(Targets, category)
                     /\ 1000 * ret.value[k].abatement_potential
                           = emissions * Get(Targets, category, 0)

\* C19, amended: the same for a dataset that has the Category and Emissions
\* columns, with 2.0 for the score when the dataset has no Tier column and
\* with the potential rounded to one decimal (within 0.05 of the product).
C19_OnePerCategory ==
    (/\ IsCall("calculate_abatement_curve_data") /\ ret.raised = "none"
     /\ HasRequiredColumns)
        => /\ OneOptionPerCategory
           /\ \A k \in 1..Len(ret.value) :
                 LET category == ret.value[k].category
                     emissions == SumEmissions(FilterCategory(df, category))
                     difference == 1000 * ret.value[k].abatement_potential
                                      - emissions * Get(Targets, category, 0)
                 IN  /\ ColTier \in columns => HasKey(Scores, category)
                     /\ CostByFormula(k, Get(Scores, category, Num(200)))
                     /\ HasKey(Targets, category)
                     /\ ret.value[k].reduction_pct = Get(Targets, category, 0)
                     /\ difference >= -500 /\ difference <= 500

\* C19, witness: the curve of a dataset with Manufacturing in Tier 1 and
\* Transport in Tier 3, 1.00 tCO2e each: costs 0.0 and 100.0, targets 35 and
\* potentials 0.3 (0.35 before rounding).
C19_Witness ==
    /\ IsCall("calculate_abatement_curve_data") /\ ret.raised = "none"
    /\ columns = AllColumns
    /\ Len(ret.value) = 2
    /\ ret.value[1] = [category |-> "Manufacturing", abatement_potential |-> 3,
                       cost_per_tco2e |-> Num(0), reduction_pct |-> 35]
    /\ ret.value[2] = [category |-> "Transport", abatement_potential |-> 3,
                       cost_per_tco2e |-> Num(1000), reduction_pct |-> 35]

UnmatchedKeys == Keys(reduction_values) \ DatasetCategories
UnmappedCategories == DatasetCategories \ Keys(reduction_values)
\* The reduction map without the key k.
WithoutKey(k) == SelectSeq(reduction_values, LAMBDA item : item[1] # k)
\* The records of the dataset outside the category c.
WithoutCategory(c) == SelectSeq(df, LAMBDA row : row.Category # c)
\* The amount the loop takes off new_total for the records d, in
\* ten-thousandths of a tCO2e.
TakenOff(d) == 0 - ScenarioLoop(d, reduction_values, 1, 0, <<>>).new_total
\* The savings map has the keys of the reduction map and no other; a key that
\* names no category has savings 0, and the call without that key returns the
\* same new_total; a category the map does not name has no entry, and the
\* loop takes off new_total what it takes off without the records of that
\* category.
SavingsKeyedByMap ==
    /\ Keys(ret.value.category_savings) = Keys(reduction_values)
    /\ Len(ret.value.category_savings) = Len(reduction_values)
    /\ \A k \in UnmatchedKeys :
          /\ Get(ret.value.category_savings, k, -1) = 0
          /\ calculate_reduction_scenarios(df, columns, WithoutKey(k)).value.new_total
                 = ret.value.new_total
    /\ \A c \in UnmappedCategories :
          /\ ~HasKey(ret.value.category_savings, c)
          /\ TakenOff(df) = TakenOff(WithoutCategory(c))
          /\ ret.value.new_total
                 = RoundDiv(100 * SumEmissions(df) - TakenOff(WithoutCategory(c)), 1000)

\* C21, as stated: on a dataset with the required columns the savings map
\* returned by calculate_reduction_scenarios has exactly the keys of the
\* reduction map; a key that names no category of the dataset gets savings 0
\* and leaves new_total unchanged; a category absent from the map gets no
\* entry and contributes no reduction to new_total.
C21_Original ==
    (IsCall("calculate_reduction_scenarios") /\ HasRequiredColumns) => SavingsKeyedByMap

\* C21, amended: the same on a dataset with the required columns and at least
\* one record (a dataset with no record returns an empty savings map whatever
\* the reduction map holds).
C21_KeyedByMap ==
    (IsCall("calculate_reduction_scenarios") /\ HasRequiredColumns /\ Len(df) > 0)
        => SavingsKeyedByMap

\* C21, witness: a call on a dataset with emissions in Manufacturing and
\* Transport under a map that reduces Transport and Raw Materials: Raw
\* Materials names no category and gets the entry 0, Manufacturing is in no
\* entry, and new_total is below current_total by the Transport savings alone.
C21_Witness ==
    /\ IsCall("calculate_reduction_scenarios") /\ HasRequiredColumns
    /\ DatasetCategories = {"Manufacturing", "Transport"}
    /\ SumEmissions(FilterCategory(df, "Manufacturing")) > 0
    /\ Keys(reduction_values) = {"Transport", "Raw Materials"}
    /\ \A i \in 1..Len(reduction_values) : reduction_values[i][2] > 0
    /\ Keys(ret.value.category_savings) = {"Transport", "Raw Materials"}
    /\ Get(ret.value.category_savings, "Raw Materials", -1) = 0
    /\ Get(ret.value.category_savings, "Transport", -1) > 0
    /\ ret.value.new_total
           = ret.value.current_total - Get(ret.value.category_savings, "Transport", -1)

\* The plan generate_decarbonization_plan returns for the dataset of the state.
PlanOfDataset == generate_decarbonization_plan(df, columns, 30).value
\* The place of a timeframe in time: 1 for short_term, 2 for medium_term, 3
\* for long_term; 0 for a category the plan does not hold.
TimeframeRank(c) ==
    IF HasKey(PlanOfDataset.short_term, c) THEN 1
    ELSE IF HasKey(PlanOfDataset.medium_term, c) THEN 2
    ELSE IF HasKey(PlanOfDataset.long_term, c) THEN 3
    ELSE 0

\* C22: in the sequence calculate_abatement_curve_data returns, every category
\* that generate_decarbonization_plan places in short_term for the same dataset
\* comes before every medium_term category, and every medium_term category
\* before every long_term category: no option is followed by an option of an
\* earlier timeframe.
C22_CurveFollowsPlan ==
    (IsCall("calculate_abatement_curve_data") /\ ret.raised = "none")
        => \A i, j \in 1..Len(ret.value) :
              i < j => TimeframeRank(ret.value[i].category)
                           <= TimeframeRank(ret.value[j].category)

\* The entries the returned plan holds for the category c, over its three
\* timeframes.
PlanEntries(c) ==
    {Get(ret.value[b], c, <<>>) :
        b \in {b \in {"short_term", "medium_term", "long_term"} : HasKey(ret.value[b], c)}}
\* The options of the curve for the category c.
CurveOptions(curve, c) == {curve[k] : k \in {k \in 1..Len(curve) : curve[k].category = c}}
\* The plan, the curve and the recommender agree on the category c: they hold
\* one entry each with the same target and the same amount, or none of them
\* holds c.
AgreeOn(c, curve, targets) ==
    \/ /\ PlanEntries(c) = {}
       /\ CurveOptions(curve, c) = {}
       /\ ~HasKey(targets, c)
    \/ /\ Cardinality(PlanEntries(c)) = 1
       /\ Cardinality(CurveOptions(curve, c)) = 1
       /\ HasKey(targets, c)
       /\ \A entry \in PlanEntries(c) : \A option \in CurveOptions(curve, c) :
             /\ entry.target_reduction = option.reduction_pct
             /\ entry.target_reduction = Get(targets, c, 0)
             /\ entry.emissions_impact = option.abatement_potential

\* C23: for every dataset and every category in it the three outputs agree:
\* the plan entry's target_reduction equals the abatement option's
\* reduction_pct and recommend_reduction_targets' value for the category, and
\* the plan entry's emissions_impact equals the option's abatement_potential.
\* With the required columns every category has its entry in each of the
\* three; the curve raises exactly what the plan raises.
C23_ThreeOutputsAgree ==
    IsCall("generate_decarbonization_plan")
        => LET curve == calculate_abatement_curve_data(df, columns)
               targets == recommend_reduction_targets(df, columns)
           IN  /\ curve.raised = ret.raised
               /\ targets.raised = "none"
               /\ ret.raised = "none"
                     => \A c \in DatasetCategories :
                           /\ AgreeOn(c, curve.value, targets.value)
                           /\ HasRequiredColumns => PlanEntries(c) # {}

\* C23, witness: a plan for a dataset of two categories, each with a target of
\* 35 percent and an emissions_impact above zero.
C23_Witness ==
    /\ IsCall("generate_decarbonization_plan") /\ ret.raised = "none"
    /\ DatasetCategories = {"Manufacturing", "Transport"}
    /\ \A c \in DatasetCategories :
          \E entry \in PlanEntries(c) :
              entry.target_reduction = 35 /\ entry.emissions_impact > 0

====
